---- MODULE Spec2Model ----
(***************************************************************************)
(* The plan / execute / replan loop of the internal regulation agent:      *)
(* execute_plan of src/internal_regulation_agent/execute_plan.py, with the *)
(* payload parser of src/internal_regulation_agent/generate_plan.py.       *)
(*                                                                         *)
(* The decision service, the document loader and the wall clock are the    *)
(* environment: every answer they can give is drawn from a small set.      *)
(***************************************************************************)
EXTENDS Integers, Sequences, FiniteSets, TLC

\* ------------------------------------------------------------------ bounds
\* longest initial task list
MaxInit == 2
\* longest list of tasks one replanning answer carries
MaxNew == 2
\* longest pending queue the decision service is allowed to build
MaxQueue == 3
\* number of tasks popped in one run
MaxPops == 3
\* clock ticks in one second (the resolution of the modelled clock)
TicksPerSecond == 2
\* elapsed time is explored up to MaxDays whole days plus MaxFineTicks ticks
MaxDays == 1
MaxFineTicks == 4
\* longest output of the tree command (characters)
MaxText == 3
\* longest list handed to the payload parser
MaxItems == 3

\* ------------------------------------------------- datetime.timedelta
\* timedelta.seconds is the seconds field of the normalised (days, seconds,
\* microseconds) triple: it lies in 0 .. 86399 and leaves the days out.
SecondsPerDay == 86400
DayTicks == SecondsPerDay * TicksPerSecond

\* (current_time - start_time).seconds, for a difference given in ticks.
\* \div and % round towards minus infinity, as the normalisation does.
TimedeltaSeconds(delta) == (delta \div TicksPerSecond) % SecondsPerDay

\* The elapsed time in ticks really is more than `budget` seconds.
ElapsedExceeds(delta, budget) == delta > budget * TicksPerSecond

\* ------------------------------------------------------------ data model
DocxNames == {"A.docx", "B.docx", "C.docx"}
FileNames == DocxNames \cup {"D.txt"}
\* the files the initial plan names, and those a replanning answer names
PlanNames == {"A.docx", "B.docx"}
ReplanNames == {"C.docx", "D.txt"}
CheckReasons == {"why"}

\* class Step / Task: {file_name, check_reason}
Task == [file_name : FileNames, check_reason : CheckReasons]
PlanTasks == {t \in Task : t.file_name \in PlanNames}
ReplanTasks == {t \in Task : t.file_name \in ReplanNames}

NoTask == [file_name |-> "<unbound>", check_reason |-> "<unbound>"]

\* class Regulation: the six required fields
RegulationFields ==
    {"file_name", "original_text", "updated_text", "is_updated", "hypothesis", "reason"}

\* sequences over S of length lo .. hi
SeqsOf(S, lo, hi) == UNION {[1 .. n -> S] : n \in lo .. hi}

\* ------------------------------------------------- structured payloads
\* What extract_json_between_markers hands back: None, a JSON object or a
\* JSON list.  A JSON object is a function from its keys to its values.
JsonNone == [t |-> "none"]
JsonDict(d) == [t |-> "dict", d |-> d]
JsonList(items) == [t |-> "list", items |-> items]
JsonStr == [t |-> "str"]

IsDict(j) == j.t = "dict"
IsList(j) == j.t = "list"

\* dict.get(key, "")
Get(d, key) == IF key \in DOMAIN d THEN d[key] ELSE ""

\* Regulation(**json_output): succeeds on a mapping that carries every
\* required field; anything else raises and is caught at line 195.
Coercible(j) == IsDict(j) /\ RegulationFields \subseteq DOMAIN j.d

MakeRegulation(j) == [f \in RegulationFields |-> j.d[f]]

\* parse_json_to_steps (imported by execute_plan as parse_json_to_tasks):
\* ok = FALSE stands for the ValueError it raises.
\* a JSON value that is no string (null, a number, a list): the values of
\* the payloads are strings, and this one stands for all the others
NotAStr == "<not a str>"

\* Step(file_name=..., check_reason=...), lines 40-42: both fields are str
StepValid(d) == Get(d, "file_name") # NotAStr /\ Get(d, "check_reason") # NotAStr

StepOf(d) == [file_name |-> Get(d, "file_name"), check_reason |-> Get(d, "check_reason")]

\* the message of pydantic's ValidationError for a field that is no str
StepInvalid == "ValidationError: Step"

\* an entry at which the loop of lines 88-95 raises, and what it raises
BadItem(item) == ~IsDict(item) \/ ~StepValid(item.d)

ParseItemsOk(items) == \A i \in 1 .. Len(items) : ~BadItem(items[i])

FirstBad(items) ==
    CHOOSE i \in 1 .. Len(items) :
        BadItem(items[i]) /\ \A j \in 1 .. i - 1 : ~BadItem(items[j])

\* the message of the ValueError of line 90: an entry of the list is no dict
StepNotDict == "ValueError: each step must be a dict"

\* the message of the ValueError of lines 105-107: neither a list nor a dict
UnexpectedJson == "ValueError: unexpected JSON format"

\* each step put in front of the list (steps.insert(0, step))
ParseReversed(json) ==
    IF IsList(json)
    THEN IF ParseItemsOk(json.items)
         THEN [ok |-> TRUE, error |-> "",
               steps |-> [i \in 1 .. Len(json.items) |->
                             StepOf(json.items[Len(json.items) + 1 - i].d)]]
         ELSE [ok |-> FALSE, steps |-> <<>>,
               error |-> IF IsDict(json.items[FirstBad(json.items)])
                         THEN StepInvalid ELSE StepNotDict]
    ELSE IF IsDict(json)
         THEN IF StepValid(json.d)
              THEN [ok |-> TRUE, error |-> "", steps |-> <<StepOf(json.d)>>]
              ELSE [ok |-> FALSE, error |-> StepInvalid, steps |-> <<>>]
         ELSE [ok |-> FALSE, error |-> UnexpectedJson, steps |-> <<>>]

parse_json_to_steps(json) ==
    IF IsList(json)
    THEN IF ParseItemsOk(json.items)
         THEN [ok |-> TRUE, error |-> "",
               steps |-> [i \in 1 .. Len(json.items) |-> StepOf(json.items[i].d)]]
         ELSE [ok |-> FALSE, steps |-> <<>>,
               error |-> IF IsDict(json.items[FirstBad(json.items)])
                         THEN StepInvalid ELSE StepNotDict]
    ELSE IF IsDict(json)
         THEN IF StepValid(json.d)
              THEN [ok |-> TRUE, error |-> "", steps |-> <<StepOf(json.d)>>]
              ELSE [ok |-> FALSE, error |-> StepInvalid, steps |-> <<>>]
         ELSE [ok |-> FALSE, error |-> UnexpectedJson, steps |-> <<>>]

\* --------------------------------------------------------- environment
\* timeout budgets handed to execute_plan (seconds)
Budgets == {-1, 0, 1, SecondsPerDay}

\* wall-clock readings at which a run may start (ticks)
StartClocks == {3}

\* time that can pass between two steps of the loop (ticks): a tick, a whole
\* day, or as long as the budget
Durations(budget) == {1, DayTicks, budget * TicksPerSecond}

\* the elapsed times of a day that are explored: the first ticks of the day
\* and the second that follows the budget
Explored(e, budget) ==
    \/ e <= MaxFineTicks
    \/ e - budget * TicksPerSecond \in 0 .. TicksPerSecond

InitTaskLists == SeqsOf(PlanTasks, 0, MaxInit)

\* answers of the decision service to the edit request
RegulationPayload(task) ==
    JsonDict([file_name |-> task.file_name,
              original_text |-> "old",
              updated_text |-> "new",
              is_updated |-> TRUE,
              hypothesis |-> task.check_reason,
              reason |-> "because"])

\* the decision "no edit needed" that hands the text it read back
UnchangedPayload(task) ==
    JsonDict([file_name |-> task.file_name,
              original_text |-> "old",
              updated_text |-> "old",
              is_updated |-> FALSE,
              hypothesis |-> task.check_reason,
              reason |-> "because"])

\* the files the decision service finds in no need of an edit
UnchangedNames == {"C.docx"}

EditJsons(task) ==
    {JsonNone, JsonList(<<>>), JsonDict([file_name |-> task.file_name]),
     RegulationPayload(task)}
        \cup {UnchangedPayload(task) : name \in {task.file_name} \cap UnchangedNames}

\* answers of the decision service to the replanning request
TaskItem(task) == JsonDict([file_name |-> task.file_name, check_reason |-> task.check_reason])

ReplanJsons ==
    {JsonNone, JsonList(<<>>), JsonList(<<JsonStr>>)}
        \cup {TaskItem(task) : task \in ReplanTasks}
        \cup {JsonList([i \in 1 .. Len(s) |-> TaskItem(s[i])]) : s \in SeqsOf(ReplanTasks, 1, MaxNew)}

\* ---------------------------------------------------------------- state
VARIABLES
    pc,                   \* position in execute_plan
    tasks,                \* the pending queue (the caller's list)
    updated_regulations,  \* the result list
    completed_tasks,
    failed_tasks,
    current_task,
    start_time,           \* ticks
    now,                  \* the wall clock, ticks
    time_out,             \* seconds
    data_dir_exists,      \* <base_dir>/data/ is there
    diagnostic,           \* the latest message the loop printed, or the error it raised
    result,               \* what execute_plan returned
    init_tasks,           \* history: the list execute_plan was called with
    enq_log,              \* history: every task ever enqueued, in order
    pop_log,              \* history: every task popped, in order
    dropped_tasks,        \* history: popped tasks left in neither terminal list
    skip_summary_file_creation,   \* the flag of the command line
    summary_file,         \* <base_dir>/internal_regulation_summary.txt, as stored
    internal_regulation_summary,  \* the content of the summary of this run
    created_summary,      \* history: the content the last non-skip retrieval returned
    linesep,              \* os.linesep of the platform
    report,               \* generate_report: its position, locals, artifacts and result
    parsed_data,          \* the argument of a call of parse_json_to_steps
    parse_out,            \* what that call gave
    overrun               \* history: where the loop was when the budget ran out

vars == <<pc, tasks, updated_regulations, completed_tasks, failed_tasks, current_task,
          start_time, now, time_out, data_dir_exists, diagnostic, result,
          init_tasks, enq_log, pop_log, dropped_tasks,
          skip_summary_file_creation, summary_file, internal_regulation_summary,
          created_summary, linesep, report, parsed_data, parse_out, overrun>>

lists == <<updated_regulations, completed_tasks, failed_tasks>>
clock == <<start_time, now>>
\* what execute_plan neither reads nor writes
summary == <<skip_summary_file_creation, summary_file, internal_regulation_summary,
             created_summary, linesep>>
parser == <<parsed_data, parse_out>>
outside == <<summary, report, parser, overrun>>
setup == <<time_out, data_dir_exists, init_tasks, outside>>
queue == <<tasks, enq_log>>

NotReturned == [returned |-> FALSE, value |-> <<>>]
Returned(v) == [returned |-> TRUE, value |-> v]

Running == pc \in {"loop", "retrieve", "edit", "replan"}
Terminated == pc \in {"exhausted", "timeout", "raised"}

Elapsed == now - start_time

\* a file that is not there, a local that is not bound
NoFile == <<"<absent>">>
NoSummary == <<"<unbound>">>

\* a local of generate_report that is not bound, a report that is not written
Unbound == "<unbound>"
Absent == "<absent>"

\* generate_report has not been called
ReportIdle ==
    [pc |-> "idle", html_content |-> Unbound, html_content_english |-> Unbound,
     japanese_pdf |-> Absent, english_pdf |-> Absent,
     generation_failed |-> FALSE, render_failed |-> FALSE, value |-> "none"]

\* parse_json_to_steps has not been called
NotParsed == [ok |-> FALSE, error |-> "", steps |-> <<>>]

\* execute_plan called on its own: nothing of the launcher is in play
OutsideIdle ==
    /\ skip_summary_file_creation = FALSE
    /\ summary_file = NoFile
    /\ internal_regulation_summary = NoSummary
    /\ created_summary = NoSummary
    /\ linesep = "LF"
    /\ report = ReportIdle
    /\ parsed_data = JsonNone
    /\ parse_out = NotParsed
    /\ overrun = "none"

Init ==
    /\ pc = "start"
    /\ tasks \in InitTaskLists
    /\ init_tasks = tasks
    /\ enq_log = tasks
    /\ pop_log = <<>>
    /\ dropped_tasks = <<>>
    /\ updated_regulations = <<>>
    /\ completed_tasks = <<>>
    /\ failed_tasks = <<>>
    /\ current_task = NoTask
    /\ now \in StartClocks
    /\ start_time = 0
    /\ time_out \in Budgets
    /\ data_dir_exists \in BOOLEAN
    /\ diagnostic = "none"
    /\ result = NotReturned
    /\ OutsideIdle

\* ------------------------------------------------------------- actions
\* lines 134-137
Start ==
    /\ pc = "start"
    /\ updated_regulations' = <<>>
    /\ completed_tasks' = <<>>
    /\ failed_tasks' = <<>>
    /\ start_time' = now
    /\ pc' = "loop"
    /\ UNCHANGED <<queue, current_task, now, diagnostic, result, setup, pop_log,
                   dropped_tasks>>

\* the wall clock moves on while the loop runs; the loop reads it at line 140
\* only, so the time an iteration took is added where it is read
Tick(d) ==
    /\ pc = "loop"
    /\ d > 0
    /\ Explored((Elapsed + d) % DayTicks, time_out)
    /\ (Elapsed + d) \div DayTicks <= MaxDays
    /\ now' = now + d
    /\ UNCHANGED <<pc, queue, lists, current_task, start_time, diagnostic, result, setup,
                   pop_log, dropped_tasks>>

\* a budget of zero or less read as "no limit"
TimedOutUnlessNonPositive(current_time, started, budget) ==
    budget > 0 /\ TimedeltaSeconds(current_time - started) > budget

\* line 142: (current_time - start_time).seconds > time_out
TimedOut(current_time, started, budget) ==
    TimedeltaSeconds(current_time - started) > budget

\* line 139 false, line 235
ReturnExhausted ==
    /\ pc = "loop"
    /\ tasks = <<>>
    /\ pc' = "exhausted"
    /\ result' = Returned(updated_regulations)
    /\ UNCHANGED <<queue, lists, current_task, clock, diagnostic, setup, pop_log,
                   dropped_tasks>>

\* the timeout exit handing back an empty list instead of the partial results
ReturnTimeoutDiscards ==
    /\ pc = "loop"
    /\ tasks # <<>>
    /\ TimedeltaSeconds(now - start_time) > time_out
    /\ pc' = "timeout"
    /\ diagnostic' = "Timeout reached"
    /\ result' = Returned(<<>>)
    /\ UNCHANGED <<queue, lists, current_task, clock, setup, pop_log,
                   dropped_tasks>>

\* lines 139-146
ReturnTimeout ==
    /\ pc = "loop"
    /\ tasks # <<>>
    /\ TimedOut(now, start_time, time_out)
    /\ pc' = "timeout"
    /\ diagnostic' = "Timeout reached"
    /\ result' = Returned(updated_regulations)
    /\ UNCHANGED <<queue, lists, current_task, clock, setup, pop_log,
                   dropped_tasks>>

\* the head of the queue read (tasks[0]) and left in the queue
PopTaskPeeks ==
    /\ pc = "loop"
    /\ tasks # <<>>
    /\ ~TimedOut(now, start_time, time_out)
    /\ Len(pop_log) < MaxPops
    /\ current_task' = Head(tasks)
    /\ pop_log' = Append(pop_log, Head(tasks))
    /\ pc' = "retrieve"
    /\ diagnostic' = "Current Task"
    /\ UNCHANGED <<tasks, lists, clock, result, setup, enq_log,
                   dropped_tasks>>

\* lines 139-148
PopTask ==
    /\ pc = "loop"
    /\ tasks # <<>>
    /\ ~TimedOut(now, start_time, time_out)
    /\ Len(pop_log) < MaxPops
    /\ current_task' = Head(tasks)
    /\ tasks' = Tail(tasks)
    /\ pop_log' = Append(pop_log, Head(tasks))
    /\ pc' = "retrieve"
    /\ diagnostic' = "Current Task"
    /\ UNCHANGED <<lists, clock, result, setup, enq_log,
                   dropped_tasks>>

\* retrieve_internal_regulation, lines 96-106: raises when the data
\* directory is missing or the file is no .docx; the loader itself may raise.
RetrieveRaises(file_name, loader_ok) ==
    \/ ~data_dir_exists
    \/ file_name \notin DocxNames
    \/ ~loader_ok

\* a failed retrieval recorded without the continue of line 163
RetrieveFallsThrough(loader_ok) ==
    /\ pc = "retrieve"
    /\ IF RetrieveRaises(current_task.file_name, loader_ok)
       THEN /\ failed_tasks' = Append(failed_tasks, current_task)
            /\ diagnostic' = "Error retrieving internal regulation"
            /\ pc' = "edit"
       ELSE /\ pc' = "edit"
            /\ UNCHANGED <<failed_tasks, diagnostic>>
    /\ UNCHANGED <<queue, updated_regulations, completed_tasks, current_task, clock, result,
                   setup, pop_log, dropped_tasks>>

\* a task whose retrieval failed put back at the end of the queue
RetrieveRequeues(loader_ok) ==
    /\ pc = "retrieve"
    /\ IF RetrieveRaises(current_task.file_name, loader_ok)
       THEN /\ failed_tasks' = Append(failed_tasks, current_task)
            /\ tasks' = Append(tasks, current_task)
            /\ enq_log' = Append(enq_log, current_task)
            /\ diagnostic' = "Error retrieving internal regulation"
            /\ pc' = "loop"
       ELSE /\ pc' = "edit"
            /\ UNCHANGED <<failed_tasks, diagnostic, queue>>
    /\ UNCHANGED <<updated_regulations, completed_tasks, current_task, clock, result,
                   setup, pop_log, dropped_tasks>>

\* a failed retrieval skipped without an entry in failed_tasks
RetrieveFailureUnrecorded(loader_ok) ==
    /\ pc = "retrieve"
    /\ IF RetrieveRaises(current_task.file_name, loader_ok)
       THEN /\ diagnostic' = "Error retrieving internal regulation"
            /\ pc' = "loop"
       ELSE /\ pc' = "edit"
            /\ UNCHANGED diagnostic
    /\ UNCHANGED <<queue, lists, current_task, clock, result, setup, pop_log, dropped_tasks>>

\* lines 154-163
Retrieve(loader_ok) ==
    /\ pc = "retrieve"
    /\ IF RetrieveRaises(current_task.file_name, loader_ok)
       THEN /\ failed_tasks' = Append(failed_tasks, current_task)
            /\ diagnostic' = "Error retrieving internal regulation"
            /\ pc' = "loop"
       ELSE /\ pc' = "edit"
            /\ UNCHANGED <<failed_tasks, diagnostic>>
    /\ UNCHANGED <<queue, updated_regulations, completed_tasks, current_task, clock, result,
                   setup, pop_log, dropped_tasks>>

\* a failed edit call recorded in failed_tasks, as a failed retrieval is
EditCallRaisesRecordsFailure ==
    /\ pc = "edit"
    /\ diagnostic' = "Error during LLM call for updating regulation"
    /\ failed_tasks' = Append(failed_tasks, current_task)
    /\ pc' = "loop"
    /\ UNCHANGED <<queue, updated_regulations, completed_tasks, current_task, clock, result,
                   setup, pop_log, dropped_tasks>>

\* a failed edit call followed by the replanning request
EditCallRaisesThenReplans ==
    /\ pc = "edit"
    /\ diagnostic' = "Error during LLM call for updating regulation"
    /\ dropped_tasks' = Append(dropped_tasks, current_task)
    /\ pc' = "replan"
    /\ UNCHANGED <<queue, lists, current_task, clock, result, setup, pop_log>>

\* lines 175-184: get_response_from_llm raises
EditCallRaises ==
    /\ pc = "edit"
    /\ diagnostic' = "Error during LLM call for updating regulation"
    /\ dropped_tasks' = Append(dropped_tasks, current_task)
    /\ pc' = "loop"
    /\ UNCHANGED <<queue, lists, current_task, clock, result, setup, pop_log>>

\* the Regulation put in front of the result list (insert(0, regulation))
RecordAtHead(regulations, regulation) == <<regulation>> \o regulations

\* line 194: updated_regulations.append(regulation)
Record(regulations, regulation) == Append(regulations, regulation)

\* a missing structured block handled like an uncoercible one: logged, next task
EditDecisionSkipsMissingBlock(json_output) ==
    /\ pc = "edit"
    /\ IF Coercible(json_output)
       THEN /\ updated_regulations' =
                   Record(updated_regulations, MakeRegulation(json_output))
            /\ completed_tasks' = Append(completed_tasks, current_task)
            /\ pc' = "replan"
            /\ diagnostic' = "EXECUTION"
            /\ UNCHANGED <<failed_tasks, dropped_tasks>>
       ELSE /\ dropped_tasks' = Append(dropped_tasks, current_task)
            /\ pc' = "loop"
            /\ diagnostic' = "Error converting JSON to Regulation"
            /\ UNCHANGED lists
    /\ UNCHANGED <<queue, current_task, clock, result, setup, pop_log>>

\* the edit step reading the clock again and returning once the budget ran out
EditDecisionPollsTimeout(json_output) ==
    /\ pc = "edit"
    /\ IF TimedOut(now, start_time, time_out)
       THEN /\ pc' = "timeout"
            /\ diagnostic' = "Timeout reached"
            /\ result' = Returned(updated_regulations)
            /\ UNCHANGED <<lists, dropped_tasks>>
       ELSE IF json_output = JsonNone
            THEN /\ pc' = "raised"
                 /\ diagnostic' = "Failed to extract JSON from the LLM output."
                 /\ UNCHANGED <<lists, dropped_tasks, result>>
            ELSE IF Coercible(json_output)
                 THEN /\ updated_regulations' =
                             Record(updated_regulations, MakeRegulation(json_output))
                      /\ completed_tasks' = Append(completed_tasks, current_task)
                      /\ pc' = "replan"
                      /\ diagnostic' = "EXECUTION"
                      /\ UNCHANGED <<failed_tasks, dropped_tasks, result>>
                 ELSE /\ dropped_tasks' = Append(dropped_tasks, current_task)
                      /\ pc' = "loop"
                      /\ diagnostic' = "Error converting JSON to Regulation"
                      /\ UNCHANGED <<lists, result>>
    /\ UNCHANGED <<queue, current_task, clock, setup, pop_log>>

\* lines 175-201: the call returns a text whose structured block is json_output
EditDecision(json_output) ==
    /\ pc = "edit"
    /\ IF json_output = JsonNone
       THEN \* line 190: raise ValueError
            /\ pc' = "raised"
            /\ diagnostic' = "Failed to extract JSON from the LLM output."
            /\ UNCHANGED <<lists, dropped_tasks>>
       ELSE IF Coercible(json_output)
            THEN /\ updated_regulations' =
                        Record(updated_regulations, MakeRegulation(json_output))
                 /\ completed_tasks' = Append(completed_tasks, current_task)
                 /\ pc' = "replan"
                 /\ diagnostic' = "EXECUTION"
                 /\ UNCHANGED <<failed_tasks, dropped_tasks>>
            ELSE \* lines 195-199
                 /\ dropped_tasks' = Append(dropped_tasks, current_task)
                 /\ pc' = "loop"
                 /\ diagnostic' = "Error converting JSON to Regulation"
                 /\ UNCHANGED lists
    /\ UNCHANGED <<queue, current_task, clock, result, setup, pop_log>>

\* a failed replanning call left to propagate out of execute_plan
ReplanCallRaisesAborts ==
    /\ pc = "replan"
    /\ diagnostic' = "Error during LLM call for replanning"
    /\ pc' = "raised"
    /\ UNCHANGED <<queue, lists, current_task, clock, result, setup, pop_log, dropped_tasks>>

\* lines 216-226: get_response_from_llm raises
ReplanCallRaises ==
    /\ pc = "replan"
    /\ diagnostic' = "Error during LLM call for replanning"
    /\ pc' = "loop"
    /\ UNCHANGED <<queue, lists, current_task, clock, result, setup, pop_log, dropped_tasks>>

\* line 230
HasNewTasks(new_tasks_json) == IsList(new_tasks_json) /\ Len(new_tasks_json.items) > 0

\* new tasks put in front of the queue
ExtendAtHead(queued, new_tasks) == new_tasks \o queued

\* new tasks already pending filtered out before the extend
ExtendUnique(queued, new_tasks) ==
    LET Pending(task) == \E i \in 1 .. Len(queued) : queued[i] = task
        Fresh(task) == ~Pending(task)
    IN  queued \o SelectSeq(new_tasks, Fresh)

\* line 232: tasks.extend(new_tasks)
Extend(queued, new_tasks) == queued \o new_tasks

\* a missing structured block read as "no new task" (the assert of line 228 left out)
ReplanMissingBlockAsEmpty(new_tasks_json) ==
    /\ pc = "replan"
    /\ IF HasNewTasks(new_tasks_json)
       THEN LET parsed == parse_json_to_steps(new_tasks_json)
            IN  IF parsed.ok
                THEN /\ Len(tasks) + Len(parsed.steps) <= MaxQueue
                     /\ tasks' = Extend(tasks, parsed.steps)
                     /\ enq_log' = enq_log \o parsed.steps
                     /\ pc' = "loop"
                     /\ diagnostic' = "Additional Tasks"
                ELSE /\ pc' = "raised"
                     /\ diagnostic' = parsed.error
                     /\ UNCHANGED queue
       ELSE /\ pc' = "loop"
            /\ diagnostic' = "No additional tasks to check."
            /\ UNCHANGED queue
    /\ UNCHANGED <<lists, current_task, clock, result, setup, pop_log, dropped_tasks>>

\* lines 216-234: the call returns a text whose structured block is new_tasks_json
Replan(new_tasks_json) ==
    /\ pc = "replan"
    /\ IF new_tasks_json = JsonNone
       THEN \* line 228: assert
            /\ pc' = "raised"
            /\ diagnostic' = "Failed to extract JSON from LLM output"
            /\ UNCHANGED queue
       ELSE IF HasNewTasks(new_tasks_json)
            THEN LET parsed == parse_json_to_steps(new_tasks_json)
                 IN  IF parsed.ok
                     THEN /\ Len(tasks) + Len(parsed.steps) <= MaxQueue
                          /\ tasks' = Extend(tasks, parsed.steps)
                          /\ enq_log' = enq_log \o parsed.steps
                          /\ pc' = "loop"
                          /\ diagnostic' = "Additional Tasks"
                     ELSE \* ValueError of parse_json_to_steps, not caught
                          /\ pc' = "raised"
                          /\ diagnostic' = parsed.error
                          /\ UNCHANGED queue
            ELSE \* line 234
                 /\ pc' = "loop"
                 /\ diagnostic' = "No additional tasks to check."
                 /\ UNCHANGED queue
    /\ UNCHANGED <<lists, current_task, clock, result, setup, pop_log, dropped_tasks>>

\* the steps of execute_plan
LoopStep ==
    \/ Start
    \/ ReturnExhausted
    \/ ReturnTimeout
    \/ PopTask
    \/ \E loader_ok \in BOOLEAN : Retrieve(loader_ok)
    \/ EditCallRaises
    \/ \E j \in EditJsons(current_task) : EditDecision(j)
    \/ ReplanCallRaises
    \/ \E j \in ReplanJsons : Replan(j)

ClockStep == \E d \in Durations(time_out) : Tick(d)

Next == LoopStep \/ ClockStep

Spec == Init /\ [][Next]_vars

\* ------------------------------------------- time passing inside a call
\* the budgets and the durations of the runs in which the calls take time
InFlightBudgets == {0, 1}
InFlightDurations == {1, TicksPerSecond}

InFlight == pc \in {"retrieve", "edit", "replan"}

\* the wall clock moves on while retrieve_internal_regulation (line 155) or
\* get_response_from_llm (lines 176, 217) runs: no statement of lines 148-234
\* reads it
TickInFlight(d) ==
    /\ InFlight
    /\ Explored(Elapsed + d, time_out)
    /\ now' = now + d
    /\ overrun' = IF overrun = "none" /\ ~TimedOut(now, start_time, time_out)
                      /\ TimedOut(now + d, start_time, time_out)
                   THEN pc ELSE overrun
    /\ UNCHANGED <<pc, queue, lists, current_task, start_time, diagnostic, result,
                   time_out, data_dir_exists, init_tasks, summary, report, parser,
                   pop_log, dropped_tasks>>

InFlightStep == \E d \in InFlightDurations : TickInFlight(d)

InitInFlight == Init /\ time_out \in InFlightBudgets

NextInFlight == LoopStep \/ InFlightStep

SpecInFlight == InitInFlight /\ [][NextInFlight]_vars

\* A run that goes on past the bounds is followed by forgetting what the loop
\* never reads: the result and history lists, and the whole days of the
\* elapsed time (line 142 reads its seconds field only).
Forget ==
    /\ pc = "loop"
    /\ Len(pop_log) = MaxPops \/ Elapsed \div DayTicks = MaxDays
    /\ updated_regulations' = <<>>
    /\ completed_tasks' = <<>>
    /\ failed_tasks' = <<>>
    /\ dropped_tasks' = <<>>
    /\ pop_log' = <<>>
    /\ enq_log' = tasks
    /\ init_tasks' = tasks
    /\ now' = start_time + (Elapsed % DayTicks)
    /\ UNCHANGED <<pc, tasks, current_task, start_time, time_out, data_dir_exists,
                   diagnostic, result, outside>>

NextLive == Next \/ Forget

\* every external call returns and the loop goes on to its next statement;
\* the clock advances
Fairness == WF_vars(LoopStep) /\ WF_vars(ClockStep) /\ WF_vars(Forget)

SpecLive == Init /\ [][NextLive]_vars /\ Fairness

\* ------------------------------------------- the summary of the corpus
\* Text is a sequence of characters; only the line ends matter here.
Chars == {"a", "CR", "LF"}
TreeOutputs == SeqsOf(Chars, 0, MaxText)

\* the listing tree prints for the corpus of a run of the agent
TreeListing == <<"a", "LF">>

\* reading in text mode (newline=None): "\r\n" and "\r" come out as "\n"
RECURSIVE UniversalNewlines(_)
UniversalNewlines(text) ==
    IF text = <<>> THEN <<>>
    ELSE IF Head(text) = "CR"
         THEN IF Len(text) >= 2 /\ text[2] = "LF"
              THEN <<"LF">> \o UniversalNewlines(SubSeq(text, 3, Len(text)))
              ELSE <<"LF">> \o UniversalNewlines(Tail(text))
         ELSE <<Head(text)>> \o UniversalNewlines(Tail(text))

\* writing in text mode (newline=None): "\n" goes out as os.linesep
RECURSIVE WriteText(_, _)
WriteText(text, sep) ==
    IF text = <<>> THEN <<>>
    ELSE (IF Head(text) = "LF" /\ sep = "CRLF" THEN <<"CR", "LF">> ELSE <<Head(text)>>)
             \o WriteText(Tail(text), sep)

\* the output of the child process kept as it came, line ends included
CheckOutputRaw(raw) == raw

\* line 27: subprocess.check_output(["tree", data_dir], text=True)
CheckOutputText(raw) == UniversalNewlines(raw)

\* lines 54-57: open(..., "r") and f.read()
ReadText(stored) == UniversalNewlines(stored)

\* retrieve_internal_regulation_summary, lines 43-59, with
\* create_internal_regulation_summary_file, lines 15-40.  raw is what the
\* tree command prints; tree_ok is FALSE when it cannot be run or fails.
RetrieveSummary(raw, tree_ok) ==
    /\ pc = "launch"
    /\ IF ~skip_summary_file_creation
       THEN IF ~data_dir_exists
            THEN \* line 24
                 /\ pc' = "raised"
                 /\ diagnostic' = "ValueError: data does not exist."
                 /\ UNCHANGED <<summary_file, internal_regulation_summary, created_summary>>
            ELSE IF ~tree_ok
                 THEN \* lines 27-32
                      /\ pc' = "raised"
                      /\ diagnostic' = "The 'tree' command failed"
                      /\ UNCHANGED <<summary_file, internal_regulation_summary,
                                     created_summary>>
                 ELSE \* lines 33-40
                      /\ summary_file' = WriteText(CheckOutputText(raw), linesep)
                      /\ internal_regulation_summary' = CheckOutputText(raw)
                      /\ created_summary' = CheckOutputText(raw)
                      /\ pc' = "plan"
                      /\ diagnostic' = "SUMMARY FILE CREATION COMPLETED"
       ELSE IF summary_file = NoFile
            THEN \* line 54: FileNotFoundError
                 /\ pc' = "raised"
                 /\ diagnostic' = "FileNotFoundError: internal_regulation_summary.txt"
                 /\ UNCHANGED <<summary_file, internal_regulation_summary, created_summary>>
            ELSE /\ internal_regulation_summary' = ReadText(summary_file)
                 /\ pc' = "plan"
                 /\ diagnostic' = "none"
                 /\ UNCHANGED <<summary_file, created_summary>>
    /\ UNCHANGED <<tasks, lists, current_task, clock, time_out, data_dir_exists, result,
                   init_tasks, enq_log, pop_log, dropped_tasks,
                   skip_summary_file_creation, linesep, report, parser, overrun>>

\* ------------------------------------------------------ the initial plan
\* answers of the decision service to the planning request
PlanJsons ==
    {JsonNone, JsonStr, JsonList(<<JsonStr>>)}
        \cup {TaskItem(task) : task \in PlanTasks}
        \cup {JsonList([i \in 1 .. Len(s) |-> TaskItem(s[i])]) : s \in InitTaskLists}

\* generate_init_plan, generate_plan.py lines 143-157, called at
\* launch_agent.py lines 59-64: nothing it raises is caught
GenerateInitPlan(call_ok, json_output) ==
    /\ pc = "plan"
    /\ IF ~call_ok
       THEN /\ pc' = "raised"
            /\ diagnostic' = "Error during LLM call for planning"
            /\ UNCHANGED <<tasks, init_tasks, enq_log>>
       ELSE IF json_output = JsonNone
            THEN \* line 153: assert
                 /\ pc' = "raised"
                 /\ diagnostic' = "Failed to extract JSON from LLM output"
                 /\ UNCHANGED <<tasks, init_tasks, enq_log>>
            ELSE LET parsed == parse_json_to_steps(json_output)
                 IN  IF parsed.ok
                     THEN /\ tasks' = parsed.steps
                          /\ init_tasks' = parsed.steps
                          /\ enq_log' = parsed.steps
                          /\ pc' = "start"
                          /\ diagnostic' = "INIT PLANNING END"
                     ELSE /\ pc' = "raised"
                          /\ diagnostic' = parsed.error
                          /\ UNCHANGED <<tasks, init_tasks, enq_log>>
    /\ UNCHANGED <<lists, current_task, clock, time_out, data_dir_exists, result,
                   pop_log, dropped_tasks, outside>>

\* ---------------------------------------------------------- the agent
\* launch_agent.py line 12
TIME_OUT_SECONDS == 900

\* a summary file an earlier run left at the corpus root
OldSummaryFile == <<"a">>

\* the process of launch_agent.py at line 54, the client created
AtLaunch ==
    /\ pc = "launch"
    /\ tasks = <<>>
    /\ init_tasks = <<>>
    /\ enq_log = <<>>
    /\ pop_log = <<>>
    /\ dropped_tasks = <<>>
    /\ updated_regulations = <<>>
    /\ completed_tasks = <<>>
    /\ failed_tasks = <<>>
    /\ current_task = NoTask
    /\ now \in StartClocks
    /\ start_time = 0
    /\ time_out = TIME_OUT_SECONDS
    /\ data_dir_exists \in BOOLEAN
    /\ diagnostic = "none"
    /\ result = NotReturned
    /\ skip_summary_file_creation \in BOOLEAN
    /\ summary_file \in {NoFile, OldSummaryFile}
    /\ internal_regulation_summary = NoSummary
    /\ created_summary = NoSummary
    /\ report = ReportIdle
    /\ parsed_data = JsonNone
    /\ parse_out = NotParsed
    /\ overrun = "none"

InitAgent == AtLaunch /\ linesep = "LF"

LaunchStep ==
    \/ \E tree_ok \in BOOLEAN : RetrieveSummary(TreeListing, tree_ok)
    \/ \E call_ok \in BOOLEAN, j \in PlanJsons : GenerateInitPlan(call_ok, j)

\* ---------------------------------------------------------- the report
\* the calls of get_response_from_llm in generate_report (lines 63, 71, 79)
ReportCalls == 3

\* the locals and the artifacts of generate_report once calls_ok of its calls
\* have returned and the next one has raised (lines 55-87)
Generated(calls_ok) ==
    [ReportIdle EXCEPT
        !.html_content = IF calls_ok = 0 THEN Unbound
                         ELSE IF calls_ok = 1 THEN "draft" ELSE "reflected",
        !.html_content_english = IF calls_ok = ReportCalls THEN "english" ELSE Unbound,
        !.generation_failed = calls_ok < ReportCalls]

\* the two renderings made outside the try block: an unbound local or a
\* failed rendering leaves generate_report as an exception
RenderedOutsideTry(r, japanese_ok, english_ok) ==
    IF r.html_content = Unbound \/ ~japanese_ok
    THEN [r EXCEPT !.pc = "raised", !.render_failed = TRUE]
    ELSE IF r.html_content_english = Unbound \/ ~english_ok
         THEN [r EXCEPT !.pc = "raised", !.render_failed = TRUE,
                        !.japanese_pdf = r.html_content]
         ELSE [r EXCEPT !.pc = "returned", !.value = "True",
                        !.japanese_pdf = r.html_content,
                        !.english_pdf = r.html_content_english]

\* lines 88-99: reading a local that is not bound raises NameError, which
\* the except of line 95 catches as it catches a failed rendering
Rendered(r, japanese_ok, english_ok) ==
    IF r.html_content = Unbound \/ ~japanese_ok
    THEN [r EXCEPT !.pc = "returned", !.value = "False", !.render_failed = TRUE]
    ELSE IF r.html_content_english = Unbound \/ ~english_ok
         THEN [r EXCEPT !.pc = "returned", !.value = "False", !.render_failed = TRUE,
                        !.japanese_pdf = r.html_content]
         ELSE [r EXCEPT !.pc = "returned", !.value = "True",
                        !.japanese_pdf = r.html_content,
                        !.english_pdf = r.html_content_english]

\* execute_plan working on a copy of the list it was handed (list(tasks)):
\* the launcher's list is after the call what it was before
ExecutePlanEndOnCopy ==
    /\ pc \in {"exhausted", "timeout"}
    /\ pc' = "report"
    /\ tasks' = init_tasks
    /\ updated_regulations' = result.value
    /\ completed_tasks' = <<>>
    /\ failed_tasks' = <<>>
    /\ current_task' = NoTask
    /\ start_time' = 0
    /\ init_tasks' = <<>>
    /\ enq_log' = <<>>
    /\ pop_log' = <<>>
    /\ dropped_tasks' = <<>>
    /\ diagnostic' = "EXECUTE PLAN END"
    /\ UNCHANGED <<now, time_out, data_dir_exists, result, outside>>

\* launch_agent.py lines 69-78: execute_plan has returned its list to the
\* launcher; its frame is gone, and with it its locals and the histories of
\* its run
ExecutePlanEnd ==
    /\ pc \in {"exhausted", "timeout"}
    /\ pc' = "report"
    /\ updated_regulations' = result.value
    /\ completed_tasks' = <<>>
    /\ failed_tasks' = <<>>
    /\ current_task' = NoTask
    /\ start_time' = 0
    /\ init_tasks' = <<>>
    /\ enq_log' = <<>>
    /\ pop_log' = <<>>
    /\ dropped_tasks' = <<>>
    /\ diagnostic' = "EXECUTE PLAN END"
    /\ UNCHANGED <<tasks, now, time_out, data_dir_exists, result, outside>>

\* launch_agent.py lines 80-96: generate_report is called with that list; an
\* exception that leaves it is caught and printed at lines 91-95; "Task
\* Completed." is printed either way
GenerateReport(calls_ok, japanese_ok, english_ok) ==
    /\ pc = "report"
    /\ report' = Rendered(Generated(calls_ok), japanese_ok, english_ok)
    /\ pc' = IF report'.pc = "raised" THEN "report failed" ELSE "done"
    /\ diagnostic' = "Task Completed."
    /\ UNCHANGED <<tasks, lists, current_task, clock, time_out, data_dir_exists, result,
                   init_tasks, enq_log, pop_log, dropped_tasks, summary, parser, overrun>>

ReportStep ==
    \/ ExecutePlanEnd
    \/ \E calls_ok \in 0 .. ReportCalls, japanese_ok \in BOOLEAN, english_ok \in BOOLEAN :
           GenerateReport(calls_ok, japanese_ok, english_ok)

NextAgent == LaunchStep \/ Next \/ ReportStep

SpecAgent == InitAgent /\ [][NextAgent]_vars

\* ------------------------------------- the summary over several runs
\* the agent started again on the same corpus root, with a flag of its own
Rerun ==
    /\ pc \in {"plan", "raised"}
    /\ pc' = "launch"
    /\ skip_summary_file_creation' \in BOOLEAN
    /\ internal_regulation_summary' = NoSummary
    /\ diagnostic' = "none"
    /\ UNCHANGED <<tasks, lists, current_task, clock, time_out, data_dir_exists, result,
                   init_tasks, enq_log, pop_log, dropped_tasks,
                   summary_file, created_summary, linesep, report, parser, overrun>>

InitSummary == AtLaunch /\ linesep \in {"LF", "CRLF"}

NextSummary ==
    \/ \E raw \in TreeOutputs, tree_ok \in BOOLEAN : RetrieveSummary(raw, tree_ok)
    \/ Rerun

SpecSummary == InitSummary /\ [][NextSummary]_vars

\* --------------------------------------------- the payload parser alone
\* entries of a plan payload: complete, without file_name, without
\* check_reason, with a file_name that is no string, and one that is no object
ParserItems ==
    {JsonDict([file_name |-> "A.docx", check_reason |-> "why"]),
     JsonDict([check_reason |-> "why"]),
     JsonDict([file_name |-> "B.docx"]),
     JsonDict([file_name |-> NotAStr, check_reason |-> "why"]),
     JsonStr}

ParserInputs ==
    {JsonNone, JsonStr}
        \cup {item \in ParserItems : IsDict(item)}
        \cup {JsonList(items) : items \in SeqsOf(ParserItems, 0, MaxItems)}

\* a call of parse_json_to_steps about to be made
InitParser ==
    /\ pc = "parse"
    /\ parsed_data \in ParserInputs
    /\ parse_out = NotParsed
    /\ tasks = <<>>
    /\ init_tasks = <<>>
    /\ enq_log = <<>>
    /\ pop_log = <<>>
    /\ dropped_tasks = <<>>
    /\ updated_regulations = <<>>
    /\ completed_tasks = <<>>
    /\ failed_tasks = <<>>
    /\ current_task = NoTask
    /\ now \in StartClocks
    /\ start_time = 0
    /\ time_out = TIME_OUT_SECONDS
    /\ data_dir_exists = TRUE
    /\ diagnostic = "none"
    /\ result = NotReturned
    /\ skip_summary_file_creation = FALSE
    /\ summary_file = NoFile
    /\ internal_regulation_summary = NoSummary
    /\ created_summary = NoSummary
    /\ linesep = "LF"
    /\ report = ReportIdle
    /\ overrun = "none"

\* generate_plan.py lines 73-108
Parse ==
    /\ pc = "parse"
    /\ parse_out' = parse_json_to_steps(parsed_data)
    /\ pc' = "parsed"
    /\ UNCHANGED <<tasks, lists, current_task, clock, time_out, data_dir_exists,
                   diagnostic, result, init_tasks, enq_log, pop_log, dropped_tasks,
                   summary, report, parsed_data, overrun>>

NextParser == Parse

SpecParser == InitParser /\ [][NextParser]_vars

TypeOK ==
    /\ pc \in {"launch", "plan", "start", "loop", "retrieve", "edit", "replan",
               "exhausted", "timeout", "raised", "parse", "parsed", "report", "done"}
    /\ Len(tasks) <= MaxQueue
    /\ \A i \in 1 .. Len(tasks) : tasks[i] \in Task
    /\ pc \notin {"report", "done"} => Len(updated_regulations) = Len(completed_tasks)
    /\ time_out \in Budgets \cup {TIME_OUT_SECONDS}
    /\ overrun \in {"none", "retrieve", "edit", "replan"}

\* ================================================================ claims
TaskOf(file_name) == [file_name |-> file_name, check_reason |-> "why"]
TaskA == TaskOf("A.docx")
TaskB == TaskOf("B.docx")
TaskC == TaskOf("C.docx")

AtBoundary == pc \in {"loop", "exhausted", "timeout"}

\* C1: tasks are popped from the head and replanned tasks are appended at
\* the tail in the order returned: the tasks popped so far followed by the
\* pending queue are exactly the tasks enqueued so far, in enqueueing order;
\* when every popped task completed, the completion order is the pop order;
\* and with the plan [A, B] and a replanning step returning [C], all three
\* completing, the completion order is A, B, C.
C1_FifoOrder ==
    /\ pop_log \o tasks = enq_log
    /\ Len(completed_tasks) = Len(pop_log) => completed_tasks = pop_log
    /\ (/\ init_tasks = <<TaskA, TaskB>>
        /\ enq_log = <<TaskA, TaskB, TaskC>>
        /\ Len(completed_tasks) = 3) => completed_tasks = <<TaskA, TaskB, TaskC>>

C1_Witness ==
    /\ pc = "exhausted"
    /\ init_tasks = <<TaskA, TaskB>>
    /\ completed_tasks = <<TaskA, TaskB, TaskC>>

NoIteration ==
    /\ pop_log = <<>>
    /\ pc \in {"start", "loop", "exhausted", "timeout"}
    /\ diagnostic \in {"none", "Timeout reached"}
    /\ result.value = <<>>

\* C2 as stated: for every budget T <= 0 the loop pops no task, makes no
\* external call and returns an empty list.
C2_NonPositiveBudgetNoIteration == time_out <= 0 => NoIteration

\* C2 as amended: for every budget T < 0 the loop pops no task, makes no
\* external call and returns an empty list.
C2_NegativeBudgetNoIteration == time_out < 0 => NoIteration

C2_Witness ==
    /\ time_out < 0
    /\ pc = "timeout"
    /\ tasks # <<>>
    /\ result = Returned(<<>>)

\* C3: at the top of an iteration with a non-empty queue the loop returns
\* if and only if the time elapsed since the start is more than the budget.
C3_TimeoutIffElapsedExceeds ==
    [][(pc = "loop" /\ tasks # <<>> /\ pc' # "loop")
           => ((pc' = "timeout") <=> ElapsedExceeds(Elapsed, time_out))]_vars

C5_Terminates == <>Terminated

\* C6: at every iteration boundary of a run that was not aborted, every
\* popped task is in exactly one of completed and failed.
C6_PoppedEndsInOneList ==
    AtBoundary => Len(completed_tasks) + Len(failed_tasks) = Len(pop_log)

Last(s) == s[Len(s)]

\* C7: a step in which retrieval raises appends the popped task to failed,
\* leaves the result list, completed and the pending queue as they are and
\* goes back to the top of the loop without an edit request; a plan of one
\* task whose retrieval raised ends with the queue exhausted, an empty result
\* list and that task alone in failed.
C7_RetrievalFailure ==
    /\ [][(pc = "retrieve" /\ diagnostic' = "Error retrieving internal regulation")
              => /\ failed_tasks' = Append(failed_tasks, current_task)
                 /\ UNCHANGED <<updated_regulations, completed_tasks, tasks, enq_log>>
                 /\ pc' = "loop"]_vars
    /\ []((Len(init_tasks) = 1 /\ pop_log = init_tasks /\ failed_tasks = init_tasks)
              => /\ enq_log = init_tasks
                 /\ tasks = <<>>
                 /\ updated_regulations = <<>>
                 /\ pc \in {"loop", "exhausted"}
                 /\ pc = "exhausted" => result = Returned(<<>>))

C7_Witness ==
    /\ pc = "exhausted"
    /\ Len(init_tasks) = 1
    /\ failed_tasks = init_tasks
    /\ diagnostic = "Error retrieving internal regulation"
    /\ result = Returned(<<>>)

EditFault ==
    {"Error during LLM call for updating regulation", "Error converting JSON to Regulation"}

\* C8: a step in which the edit call raises, or its structured payload is
\* there but is no Regulation, leaves completed, failed, the result list and
\* the pending queue as they are and goes back to the top of the loop
\* without a replanning request.
C8_EditFaultDropsTask ==
    [][(pc = "edit" /\ diagnostic' \in EditFault)
           => /\ UNCHANGED <<completed_tasks, failed_tasks, updated_regulations, tasks, enq_log>>
              /\ pc' = "loop"]_vars

C8_Witness ==
    /\ pc = "loop"
    /\ diagnostic = "Error converting JSON to Regulation"
    /\ tasks # <<>>
    /\ dropped_tasks = <<current_task>>
    /\ completed_tasks = <<>>
    /\ failed_tasks = <<>>
    /\ updated_regulations = <<>>

\* C9: when the edit answer has no structured block execute_plan raises:
\* the popped task enters neither completed nor failed, nothing is
\* returned, and after the raise no task is popped.
C9_MissingBlockRaises ==
    /\ [][EditDecision(JsonNone)
              => /\ pc' = "raised"
                 /\ UNCHANGED <<completed_tasks, failed_tasks, tasks, pop_log>>
                 /\ result' = NotReturned]_vars
    /\ [][pc = "raised" => (pc' = "raised" /\ pop_log' = pop_log /\ result' = NotReturned)]_vars

C9_Witness ==
    /\ pc = "raised"
    /\ diagnostic = "Failed to extract JSON from the LLM output."
    /\ tasks # <<>>
    /\ updated_regulations # <<>>
    /\ Len(completed_tasks) + Len(failed_tasks) + Len(dropped_tasks) = Len(pop_log) - 1
    /\ result = NotReturned

\* C10: a step in which the replanning call raises adds no task to the
\* pending queue, keeps the Regulation just recorded and the task in
\* completed, and goes back to the top of the loop.
C10_ReplanCallFailure ==
    [][(pc = "replan" /\ diagnostic' = "Error during LLM call for replanning")
           => /\ UNCHANGED <<tasks, enq_log, updated_regulations, completed_tasks, result>>
              /\ Len(completed_tasks) = Len(updated_regulations)
              /\ Last(completed_tasks) = current_task
              /\ Last(updated_regulations).file_name = current_task.file_name
              /\ pc' = "loop"]_vars

C10_Witness ==
    /\ pc = "loop"
    /\ diagnostic = "Error during LLM call for replanning"
    /\ tasks # <<>>
    /\ completed_tasks = <<current_task>>
    /\ Len(updated_regulations) = 1
    /\ enq_log = init_tasks
    /\ failed_tasks = <<>>
    /\ dropped_tasks = <<>>

\* C11: in the replanning step an absent structured block aborts the run
\* (execute_plan raises and returns nothing) while an empty list adds no
\* task and goes back to the top of the loop; a plan of one task that
\* completed and whose replanning answered [] ends with the queue exhausted
\* and exactly one Regulation returned.
C11_ReplanAbsentVersusEmpty ==
    /\ [][Replan(JsonNone)
              => /\ pc' = "raised"
                 /\ UNCHANGED <<tasks, enq_log, lists>>
                 /\ result' = NotReturned]_vars
    /\ [][Replan(JsonList(<<>>))
              => /\ pc' = "loop"
                 /\ UNCHANGED <<tasks, enq_log, lists, result>>]_vars
    /\ []((/\ pc = "exhausted"
           /\ Len(init_tasks) = 1
           /\ completed_tasks = init_tasks
           /\ enq_log = init_tasks
           /\ diagnostic = "No additional tasks to check.")
              => /\ result = Returned(updated_regulations)
                 /\ Len(result.value) = 1
                 /\ result.value[1].is_updated
                 /\ failed_tasks = <<>>)

C11_Witness ==
    /\ pc = "exhausted"
    /\ Len(init_tasks) = 1
    /\ completed_tasks = init_tasks
    /\ diagnostic = "No additional tasks to check."
    /\ Len(result.value) = 1
    /\ result.value[1].is_updated

\* C12: a replanning answer whose structured payload is one Task-shaped
\* object is taken as one new task and appended to the tail of the pending
\* queue, as a list of one element is.
C12_SingleObjectAppended ==
    [][\A task \in ReplanTasks :
           Replan(TaskItem(task))
               => /\ tasks' = Append(tasks, task)
                  /\ enq_log' = Append(enq_log, task)
                  /\ pc' = "loop"]_vars

\* the errors raised for a structured block that is absent (lines 190, 228)
MissingBlock ==
    {"Failed to extract JSON from the LLM output.", "Failed to extract JSON from LLM output"}

\* C13: a fault confined to one task never halts the loop: execute_plan
\* raises out of an iteration only for a precondition failure, an absent
\* structured block; after a retrieval error, a failed call or a payload
\* that is present but malformed the loop is back at its top.
C13_PerTaskFaultNeverHalts ==
    [][(Running /\ pc' = "raised") => diagnostic' \in MissingBlock]_vars

NoReplannedTask == enq_log = init_tasks

\* C15 as stated: in a run in which no replanning step added a task, the
\* returned list is as long as the number of initial tasks that neither
\* failed retrieval nor were dropped, and no longer than the initial list.
C15_ResultCountsInitialSurvivors ==
    (result.returned /\ NoReplannedTask) =>
        /\ Len(result.value) = Len(init_tasks) - Len(failed_tasks) - Len(dropped_tasks)
        /\ Len(result.value) <= Len(init_tasks)

\* C15 as amended: in such a run the returned list is as long as the number
\* of popped tasks that neither failed retrieval nor were dropped, which is
\* the number of such initial tasks when the queue was exhausted, and it is
\* no longer than the initial list.
C15_ResultCountsPoppedSurvivors ==
    (result.returned /\ NoReplannedTask) =>
        /\ Len(result.value) = Len(pop_log) - Len(failed_tasks) - Len(dropped_tasks)
        /\ Len(result.value) <= Len(init_tasks)
        /\ pc = "exhausted" =>
               Len(result.value) = Len(init_tasks) - Len(failed_tasks) - Len(dropped_tasks)

C15_Witness ==
    /\ pc = "exhausted"
    /\ NoReplannedTask
    /\ Len(init_tasks) = 2
    /\ Len(failed_tasks) + Len(dropped_tasks) = 1
    /\ Len(result.value) = 1

\* C16: every Regulation of the result list that has is_updated false has
\* an empty original_text and an empty updated_text.
C16_NotUpdatedHasEmptyTexts ==
    \A i \in 1 .. Len(updated_regulations) :
        ~updated_regulations[i].is_updated =>
            /\ updated_regulations[i].original_text = ""
            /\ updated_regulations[i].updated_text = ""

\* C17: every task occurrence enqueued by the plan or by a replanning step
\* is popped at most once, the i-th enqueued being the i-th popped; the
\* loop changes the pending queue only by popping its head or by appending
\* the tasks of a replanning answer, never by putting a popped task back;
\* and when the queue is exhausted every enqueued occurrence was popped.
C17_PoppedOnceNeverRequeued ==
    /\ [][tasks' # tasks
              => \/ /\ pc = "loop"
                    /\ tasks' = Tail(tasks)
                    /\ pop_log' = Append(pop_log, Head(tasks))
                 \/ /\ pc = "replan"
                    /\ pop_log' = pop_log
                    /\ \E j \in ReplanJsons :
                           /\ parse_json_to_steps(j).ok
                           /\ tasks' = tasks \o parse_json_to_steps(j).steps]_vars
    /\ [](/\ Len(pop_log) <= Len(enq_log)
          /\ \A i \in 1 .. Len(pop_log) : pop_log[i] = enq_log[i])
    /\ [](pc = "exhausted" => (tasks = <<>> /\ pop_log = enq_log))

C17_Witness ==
    /\ pc = "exhausted"
    /\ Len(init_tasks) = 1
    /\ Len(enq_log) = 3
    /\ pop_log = enq_log

\* the value of a key of an entry, "" when the entry has no such key
FieldOf(item, key) == IF key \in DOMAIN item.d THEN item.d[key] ELSE ""

\* the Task an entry stands for
Mapped(step, item) ==
    /\ step.file_name = FieldOf(item, "file_name")
    /\ step.check_reason = FieldOf(item, "check_reason")

\* an object whose fields, where present, are strings
WellTyped(item) ==
    /\ item.t = "dict"
    /\ FieldOf(item, "file_name") # NotAStr
    /\ FieldOf(item, "check_reason") # NotAStr

AllObjects(items) == \A i \in 1 .. Len(items) : WellTyped(items[i])

\* C18 as stated: the parser maps a list of n entries to n Tasks in the
\* same order and a single object to one Task, a missing field becoming
\* "", and the parse of a list never fails as a whole.
C18_ParserNeverFailsOnList ==
    pc = "parsed" =>
        /\ parsed_data.t = "list" =>
               /\ parse_out.ok
               /\ Len(parse_out.steps) = Len(parsed_data.items)
        /\ parsed_data.t = "dict" =>
               /\ parse_out.ok
               /\ Len(parse_out.steps) = 1
               /\ Mapped(parse_out.steps[1], parsed_data)

\* C18 as amended: the parser maps a list of n objects whose fields are
\* strings to n Tasks in the same order and a single such object to one
\* Task, a missing field becoming ""; the parse fails as a whole exactly
\* when an entry or the single object is no object with string fields, or
\* the payload is neither a list nor an object.
C18_ParserMapsObjects ==
    pc = "parsed" =>
        /\ (parsed_data.t = "list" /\ AllObjects(parsed_data.items)) =>
               /\ parse_out.ok
               /\ Len(parse_out.steps) = Len(parsed_data.items)
               /\ \A i \in 1 .. Len(parsed_data.items) :
                      Mapped(parse_out.steps[i], parsed_data.items[i])
        /\ WellTyped(parsed_data) =>
               /\ parse_out.ok
               /\ Len(parse_out.steps) = 1
               /\ Mapped(parse_out.steps[1], parsed_data)
        /\ (parsed_data.t = "list" /\ ~AllObjects(parsed_data.items)) => ~parse_out.ok
        /\ (parsed_data.t # "list" /\ ~WellTyped(parsed_data)) => ~parse_out.ok

C18_Witness ==
    /\ pc = "parsed"
    /\ parsed_data.t = "list"
    /\ Len(parsed_data.items) = 3
    /\ parse_out.ok
    /\ parse_out.steps[1] = [file_name |-> "", check_reason |-> "why"]
    /\ parse_out.steps[2] = [file_name |-> "B.docx", check_reason |-> ""]
    /\ parse_out.steps[3] = [file_name |-> "A.docx", check_reason |-> "why"]

\* C19: a retrieval of the summary with the skip flag set, made after a
\* retrieval without it wrote the cached file of the same corpus root,
\* returns the very content the non-skip retrieval wrote and returned, and
\* leaves the file as it is.
C19_SkipReproducesCreated ==
    [][(/\ pc = "launch"
        /\ skip_summary_file_creation
        /\ created_summary # NoSummary
        /\ pc' = "plan")
           => /\ internal_regulation_summary' = created_summary
              /\ summary_file' = summary_file]_vars

C19_Witness ==
    /\ pc = "plan"
    /\ skip_summary_file_creation
    /\ linesep = "CRLF"
    /\ created_summary = <<"a", "LF">>
    /\ summary_file = <<"a", "CR", "LF">>
    /\ internal_regulation_summary = created_summary

\* C20: generate_report never raises: every call of it returns True or
\* False, True exactly when the Japanese and the English report were both
\* written, and False whenever a generation call or a rendering step
\* failed.
C20_ReportReturnsBoolean ==
    report.pc # "idle" =>
        /\ pc = "done"
        /\ report.pc = "returned"
        /\ report.value \in {"True", "False"}
        /\ report.value = "True" <=>
               (report.japanese_pdf # Absent /\ report.english_pdf # Absent)
        /\ (report.generation_failed \/ report.render_failed) => report.value = "False"

C20_Witness ==
    /\ pc = "done"
    /\ report.pc = "returned"
    /\ report.generation_failed
    /\ report.html_content = "draft"
    /\ report.japanese_pdf = "draft"
    /\ report.english_pdf = Absent
    /\ report.value = "False"
    /\ Len(result.value) = 1

IsPrefix(s, t) == Len(s) <= Len(t) /\ s = SubSeq(t, 1, Len(s))

\* the Regulation was made from an answer to the edit request for the task
OutcomeOf(regulation, task) ==
    \E j \in EditJsons(task) : Coercible(j) /\ regulation = MakeRegulation(j)

\* C21: the result list is append-only and ordered by completion: across
\* every step the earlier list is a prefix of the later one, a step that
\* changes it appends one Regulation, the outcome of the task the same step
\* appends to completed; and at every iteration boundary it holds exactly
\* one Regulation per completed task, the i-th being the outcome of the i-th
\* completed task.
C21_ResultAppendOnlyInCompletionOrder ==
    /\ [][/\ IsPrefix(updated_regulations, updated_regulations')
           /\ updated_regulations' # updated_regulations
                  => /\ Len(updated_regulations') = Len(updated_regulations) + 1
                     /\ completed_tasks' = Append(completed_tasks, current_task)
                     /\ OutcomeOf(Last(updated_regulations'), current_task)]_vars
    /\ [](AtBoundary
              => /\ Len(updated_regulations) = Len(completed_tasks)
                 /\ \A i \in 1 .. Len(completed_tasks) :
                        OutcomeOf(updated_regulations[i], completed_tasks[i]))

C21_Witness ==
    /\ pc = "exhausted"
    /\ pop_log = <<TaskA, TaskB, TaskC>>
    /\ completed_tasks = <<TaskA, TaskC>>
    /\ failed_tasks = <<TaskB>>
    /\ Len(updated_regulations) = 2
    /\ updated_regulations[1].file_name = "A.docx"
    /\ updated_regulations[2].file_name = "C.docx"
    /\ ~updated_regulations[2].is_updated
    /\ result = Returned(updated_regulations)

\* C22: the timeout is polled only at the top of an iteration: execute_plan
\* returns on the timeout only from the check of line 142; a step taken
\* inside an iteration while the budget is already exceeded returns nothing
\* and goes where it goes within the budget: a successful retrieval is
\* followed by the edit request, a coercible edit answer is recorded with
\* its task and followed by the replanning request, and the tasks of a
\* replanning answer are appended to the pending queue.
C22_TimeoutPolledAtTopOnly ==
    /\ [][pc' = "timeout" => (pc = "loop" /\ TimedOut(now, start_time, time_out))]_vars
    /\ [][(InFlight /\ TimedOut(now, start_time, time_out) /\ pc' # pc)
              => /\ result' = NotReturned
                 /\ pc = "retrieve" =>
                        \/ pc' = "edit" /\ UNCHANGED <<lists, tasks>>
                        \/ /\ pc' = "loop"
                           /\ failed_tasks' = Append(failed_tasks, current_task)
                 /\ (pc = "edit" /\ diagnostic' = "EXECUTION")
                        => /\ pc' = "replan"
                           /\ Len(updated_regulations') = Len(updated_regulations) + 1
                           /\ OutcomeOf(Last(updated_regulations'), current_task)
                           /\ completed_tasks' = Append(completed_tasks, current_task)
                 /\ (pc = "edit" /\ diagnostic' # "EXECUTION") => pc' \in {"loop", "raised"}
                 /\ pc = "replan"
                        => /\ pc' \in {"loop", "raised"}
                           /\ \A j \in ReplanJsons :
                                  (Replan(j) /\ HasNewTasks(j) /\ parse_json_to_steps(j).ok)
                                      => tasks' = tasks \o parse_json_to_steps(j).steps]_vars

C22_Witness ==
    /\ pc = "timeout"
    /\ overrun = "retrieve"
    /\ pop_log = <<TaskA>>
    /\ completed_tasks = <<TaskA>>
    /\ Len(updated_regulations) = 1
    /\ tasks = <<TaskC>>
    /\ result = Returned(updated_regulations)

\* the replanning answers that carry tasks, and the tasks each carries, in
\* its order
NewTaskAnswers == {j \in ReplanJsons : HasNewTasks(j) /\ parse_json_to_steps(j).ok}
Carried == [j \in NewTaskAnswers |-> parse_json_to_steps(j).steps]

\* C23: every task a replanning answer returns is appended to the pending
\* queue, whether or not a task of the same file is pending, completed or
\* failed or has a Regulation in the result list: the queue after the step
\* is the queue before it followed by all the returned tasks, and the
\* completed, failed and result lists are not consulted or changed.
C23_ReplannedTasksNotFiltered ==
    [][(pc = "replan" /\ diagnostic' = "Additional Tasks")
           => \A j \in NewTaskAnswers :
                  (enq_log' = enq_log \o Carried[j] /\ Replan(j))
                      => /\ Len(tasks') = Len(tasks) + Len(j.items)
                         /\ tasks' = tasks \o Carried[j]
                         /\ UNCHANGED lists
                         /\ pc' = "loop"]_vars

C23_Witness ==
    /\ pc = "loop"
    /\ completed_tasks = <<TaskA, TaskC, TaskC>>
    /\ tasks = <<TaskC, TaskC>>
    /\ Len(updated_regulations) = 3
    /\ updated_regulations[2].file_name = "C.docx"
    /\ updated_regulations[3].file_name = "C.docx"

\* C24: the sub-steps of an iteration run in a fixed order, each gated on
\* the one before: the retrieval follows the pop, the edit request follows
\* a retrieval that succeeded, the replanning request follows the step that
\* recorded a Regulation for the popped task, and only the replanning step
\* of a task so recorded lengthens the pending queue; a step that moves the
\* task to failed or drops it goes back to the top of the loop and adds no
\* task.
C24_SubStepsGated ==
    /\ [][pc' # pc =>
              /\ pc' = "retrieve" => (pc = "loop" /\ pop_log' = Append(pop_log, current_task'))
              /\ pc' = "edit"
                     => /\ pc = "retrieve"
                        /\ ~RetrieveRaises(current_task.file_name, TRUE)
                        /\ UNCHANGED <<lists, dropped_tasks, tasks>>
              /\ pc' = "replan"
                     => /\ pc = "edit"
                        /\ Len(updated_regulations') = Len(updated_regulations) + 1
                        /\ completed_tasks' = Append(completed_tasks, current_task)
                        /\ UNCHANGED <<failed_tasks, dropped_tasks, tasks>>]_vars
    /\ [][Len(tasks') > Len(tasks)
              => /\ pc = "replan"
                 /\ Last(completed_tasks) = current_task
                 /\ Last(pop_log) = current_task
                 /\ Len(updated_regulations) = Len(completed_tasks)]_vars
    /\ [][(failed_tasks' # failed_tasks \/ dropped_tasks' # dropped_tasks)
              => /\ pc' = "loop"
                 /\ UNCHANGED <<tasks, enq_log, updated_regulations, completed_tasks>>]_vars

C24_Witness ==
    /\ pc = "exhausted"
    /\ pop_log = <<TaskA, TaskB, TaskC>>
    /\ enq_log = pop_log
    /\ completed_tasks = <<TaskA>>
    /\ failed_tasks = <<TaskB>>
    /\ dropped_tasks = <<TaskC>>
    /\ Len(result.value) = 1

\* the tasks the replanning steps of the run added to the queue
AddedByReplanning == SubSeq(enq_log, Len(init_tasks) + 1, Len(enq_log))

\* C25: at every iteration boundary the tasks are conserved: the number of
\* initial tasks plus the number of tasks added by replanning equals the
\* number of pending tasks plus completed tasks plus failed tasks plus tasks
\* dropped by an edit-decision fault.
C25_TasksConserved ==
    AtBoundary =>
        /\ enq_log = init_tasks \o AddedByReplanning
        /\ Len(init_tasks) + Len(AddedByReplanning)
               = Len(tasks) + Len(completed_tasks) + Len(failed_tasks) + Len(dropped_tasks)

C25_Witness ==
    /\ pc = "loop"
    /\ Len(init_tasks) = 2
    /\ Len(AddedByReplanning) = 2
    /\ Len(tasks) = 1
    /\ Len(completed_tasks) = 1
    /\ Len(failed_tasks) = 1
    /\ Len(dropped_tasks) = 1

\* a list of Regulations: no task of completed or failed is in it
IsRegulationList(value) ==
    \A i \in 1 .. Len(value) : DOMAIN value[i] = RegulationFields

\* C26: execute_plan works on the list of its caller: when it returns
\* because the queue is exhausted that list is empty, when it returns on the
\* timeout the list holds exactly the tasks not yet popped, those added by
\* replanning included, in queue order; the caller finds the list as the
\* call left it, and is handed the Regulations only: the completed and the
\* failed list go with the frame of the call.
C26_CallerListMutatedInPlace ==
    /\ [](pc = "exhausted" => tasks = <<>>)
    /\ [](pc = "timeout"
              => /\ tasks # <<>>
                 /\ pop_log \o tasks = enq_log)
    /\ [](result.returned
              => /\ IsRegulationList(result.value)
                 /\ pc \in {"exhausted", "timeout"} => result.value = updated_regulations)
    /\ [][(pc \in {"exhausted", "timeout"} /\ pc' # pc)
              => /\ tasks' = tasks
                 /\ updated_regulations' = result.value
                 /\ completed_tasks' = <<>>
                 /\ failed_tasks' = <<>>]_vars
    /\ [][(pc \in {"report", "done"}) => UNCHANGED <<tasks, result>>]_vars

C26_Witness ==
    /\ pc = "report"
    /\ diagnostic = "EXECUTE PLAN END"
    /\ tasks = <<TaskB, TaskC>>
    /\ Len(result.value) = 1
    /\ result.value[1].file_name = "A.docx"
    /\ completed_tasks = <<>>
    /\ failed_tasks = <<>>
====
